---- MODULE Spec2Model ----
(***************************************************************************)
(* Remote Endpoint Discovery & Health Monitoring Engine.                   *)
(*                                                                         *)
(* The module holds several specifications over one set of variables, one  *)
(* per part of the engine:                                                 *)
(*   SpecHash     identity hash of a schema operation                      *)
(*   SpecClassify failure classification of the four probe paths           *)
(*   SpecLatest   the latest-per-endpoint query of the health ledger       *)
(*   Spec         discovery, reconciliation, remote scan and cleanup       *)
(*   SpecScan     the three scan loops, probe by probe                     *)
(*   SpecProbe    one probe of a locally registered endpoint               *)
(*   SpecAuth     bearer-token refresh and authentication headers          *)
(*   SpecMonitor  EndpointMonitoringService.monitor_endpoint               *)
(*   SpecFetch    the schema-URL loop of discover_endpoints                *)
(*   SpecClock    the clocks behind checked_at of the two kinds of writer  *)
(*   SpecPool     the session pool and get_db_session                      *)
(*   SpecChecker  EnhancedHealthChecker.initialize and close               *)
(* A specification leaves the variables of the other parts at their idle   *)
(* value.                                                                  *)
(***************************************************************************)
EXTENDS Integers, Sequences, FiniteSets, TLC

VARIABLES
    hq,        \* identity-hash call: input, permuted input, the two digests
    cq,        \* one probe of one probe path: status code in, reasons out
    lq,        \* health ledger rows in insertion order and the last health_map
    de,        \* committed discovered_endpoints table: id -> row
    health,    \* committed endpoint_health table: set of rows
    nextId,    \* next discovered_endpoints.id
    now,       \* logical clock behind datetime.now() / datetime.utcnow()
    run,       \* the discovery + reconciliation call in progress
    hist,      \* what the last completed operations did (observation only)
    sc,        \* the scan loop in progress
    pq,        \* one probe of a locally registered endpoint (APIEndpoint)
    au,        \* a bearer-token server's row, the session's copy, the callers
    mo,        \* monitor_endpoint calls and the rows they committed
    fq,        \* one discover_endpoints call: the schema URLs requested so far
    ck,        \* the UTC clock, the host's offset and the rows written with them
    pl,        \* the session pool: its queue and the users of get_db_session
    hc         \* one EnhancedHealthChecker object

vars == <<hq, cq, lq, de, health, nextId, now, run, hist, sc, pq, au, mo,
          fq, ck, pl, hc>>

hashVars == <<hq>>
clsVars  == <<cq>>
latVars  == <<lq>>
dbVars   == <<de, health, nextId, now, run, hist>>
scanVars == <<sc>>
lateVars == <<fq, ck, pl, hc>>
extVars  == <<pq, au, mo, lateVars>>

(***************************************************************************)
(* Part 1.  Identity hash (api_discovery_service.py)                       *)
(***************************************************************************)

\* A parameter object of an OpenAPI operation: a dict that may or may not
\* have a "name"; loc stands for its other content ("in", "$ref", ...).
ParamObjs ==
    { [hasName |-> TRUE,  name |-> "a", loc |-> "query"],
      [hasName |-> TRUE,  name |-> "a", loc |-> "path"],
      [hasName |-> TRUE,  name |-> "b", loc |-> "query"],
      [hasName |-> FALSE, name |-> "",  loc |-> "ref1"],
      [hasName |-> FALSE, name |-> "",  loc |-> "ref2"] }

MaxParams == 3

ParamLists == UNION { [1..n -> ParamObjs] : n \in 0..MaxParams }

\* Python's order on the strings used as names.
NameOrder == <<"", "a", "b">>

NameRank(s) == CHOOSE i \in 1..Len(NameOrder) : NameOrder[i] = s

\* key=lambda x: x.get('name', '')
SortKey(p) == IF p.hasName THEN p.name ELSE ""

\* One step of a stable sort: x goes before the first element whose key is
\* strictly greater, so elements with equal keys keep their input order.
InsertStable(s, x) ==
    LET later == { i \in 1..Len(s) : NameRank(SortKey(s[i])) > NameRank(SortKey(x)) }
        k     == IF later = {} THEN Len(s) + 1
                 ELSE CHOOSE i \in later : \A j \in later : i <= j
    IN  SubSeq(s, 1, k - 1) \o <<x>> \o SubSeq(s, k, Len(s))

RECURSIVE SortedUpTo(_, _)
SortedUpTo(parameters, n) ==
    IF n = 0 THEN <<>>
    ELSE InsertStable(SortedUpTo(parameters, n - 1), parameters[n])

\* sorted(parameters, key=...): Python's sort is stable.
sorted(parameters) == SortedUpTo(parameters, Len(parameters))

\* json.dumps of a list of dicts is one-to-one on the lists: the list itself.
json_dumps(params) == params

\* hashlib.sha256(data.encode()).hexdigest(): collision free on the inputs
\* of the model, so the digest is the tagged data.
sha256(data) == <<"sha256", data>>

_generate_endpoint_hash(path, method, parameters) ==
    sha256(<<path, method, json_dumps(sorted(parameters))>>)

NoHash == <<>>

HashPaths == {"/users"}
HashMethods == {"get", "GET"}

Perms(n) == { f \in [1..n -> 1..n] : \A i, j \in 1..n : i # j => f[i] # f[j] }

HashInit ==
    \E path \in HashPaths, method \in HashMethods, params \in ParamLists :
        \E p \in Perms(Len(params)) :
            hq = [pc |-> "input", path |-> path, method |-> method,
                  params |-> params,
                  perm |-> [i \in 1..Len(params) |-> params[p[i]]],
                  h1 |-> NoHash, h2 |-> NoHash]

\* The hash of the list and the hash of its permutation.
HashCall ==
    /\ hq.pc = "input"
    /\ hq' = [hq EXCEPT !.pc = "done",
                        !.h1 = _generate_endpoint_hash(hq.path, hq.method, hq.params),
                        !.h2 = _generate_endpoint_hash(hq.path, hq.method, hq.perm)]

(***************************************************************************)
(* Part 2.  Failure classification of the probe paths                      *)
(***************************************************************************)

\* EnhancedHealthChecker._get_failure_reason
_get_failure_reason(status_code) ==
    IF status_code = 401 THEN "authentication_required"
    ELSE IF status_code = 403 THEN "forbidden"
    ELSE IF status_code = 404 THEN "not_found"
    ELSE IF status_code = 405 THEN "method_not_allowed"
    ELSE IF status_code = 422 THEN "validation_error"
    ELSE IF status_code = 429 THEN "rate_limited"
    ELSE IF 400 <= status_code /\ status_code < 500 THEN "client_error"
    ELSE IF 500 <= status_code /\ status_code < 600 THEN "server_error"
    ELSE "unknown_error"

\* RemoteServerScanner._get_failure_reason
RemoteServerScanner_get_failure_reason(status_code) ==
    IF status_code = 401 THEN "authentication_required"
    ELSE IF status_code = 403 THEN "forbidden"
    ELSE IF status_code = 404 THEN "not_found"
    ELSE IF status_code = 405 THEN "method_not_allowed"
    ELSE IF status_code = 422 THEN "validation_error"
    ELSE IF status_code = 429 THEN "rate_limited"
    ELSE IF 400 <= status_code /\ status_code < 500 THEN "client_error"
    ELSE IF 500 <= status_code /\ status_code < 600 THEN "server_error"
    ELSE "unknown_error"

\* SimpleRemoteScanner._get_failure_reason
SimpleRemoteScanner_get_failure_reason(status_code) ==
    IF status_code = 401 THEN "authentication_required"
    ELSE IF status_code = 403 THEN "forbidden"
    ELSE IF status_code = 404 THEN "not_found"
    ELSE IF status_code = 405 THEN "method_not_allowed"
    ELSE IF status_code = 422 THEN "validation_error"
    ELSE IF status_code = 429 THEN "rate_limited"
    ELSE IF 400 <= status_code /\ status_code < 500 THEN "client_error"
    ELSE IF 500 <= status_code /\ status_code < 600 THEN "server_error"
    ELSE "unknown_error"

\* EndpointMonitoringService._categorize_failure
_categorize_failure(status_code) ==
    IF status_code >= 500 THEN "server_error"
    ELSE IF status_code = 401 THEN "authentication_required"
    ELSE IF status_code = 403 THEN "authorization_required"
    ELSE IF status_code = 404 THEN "endpoint_not_found"
    ELSE IF status_code = 422 THEN "validation_error"
    ELSE IF status_code >= 400 THEN "client_error"
    ELSE "unknown_error"

\* A field a dict or a row does not carry (None / missing key).
Absent == "absent"

ProbePaths == {"enhanced", "remote", "simple", "monitor"}

\* The HTTP status codes a response can carry.
StatusCodes == 100..610

\* What a probe path puts in its result dict and in the health row it
\* persists when the response carried status_code.
\*   enhanced: check_endpoint_from_db / check_all_discovered_endpoints
\*   remote:   RemoteServerScanner.check_endpoint / scan_remote_server
\*   simple:   SimpleRemoteScanner.check_endpoint / scan_remote_server
\*   monitor:  EndpointMonitoringService.monitor_endpoint (its result dict
\*             has no failure_reason key; 2xx rows store None)
ResultReason(path, status_code) ==
    CASE path = "enhanced" -> _get_failure_reason(status_code)
      [] path = "remote"   -> RemoteServerScanner_get_failure_reason(status_code)
      [] path = "simple"   -> SimpleRemoteScanner_get_failure_reason(status_code)
      [] path = "monitor"  -> Absent

RowReason(path, status_code) ==
    CASE path = "enhanced" -> _get_failure_reason(status_code)
      [] path = "remote"   -> RemoteServerScanner_get_failure_reason(status_code)
      [] path = "simple"   -> SimpleRemoteScanner_get_failure_reason(status_code)
      [] path = "monitor"  -> IF 200 <= status_code /\ status_code < 300
                              THEN Absent
                              ELSE _categorize_failure(status_code)

\* is_healthy of the persisted row: the scanners store 200 <= status < 400
\* (enhanced_health_check.py line 415, result["status"] of the two remote
\* scanners), monitor_endpoint 200 <= status < 300 (line 66).
RowHealthy(path, status_code) ==
    IF path = "monitor" THEN 200 <= status_code /\ status_code < 300
    ELSE 200 <= status_code /\ status_code < 400

ClassifyInit ==
    \E path \in ProbePaths, code \in StatusCodes :
        cq = [pc |-> "probe", path |-> path, status_code |-> code,
              result_reason |-> Absent, row_reason |-> Absent,
              row_healthy |-> FALSE]

\* The response arrives and the probe path classifies it.
Classify ==
    /\ cq.pc = "probe"
    /\ cq' = [cq EXCEPT !.pc = "done",
                        !.result_reason = ResultReason(cq.path, cq.status_code),
                        !.row_reason = RowReason(cq.path, cq.status_code),
                        !.row_healthy = RowHealthy(cq.path, cq.status_code)]

(***************************************************************************)
(* Part 3.  Latest health per endpoint (api_analytics.py, health_map)      *)
(***************************************************************************)

LatIds == {1, 2, 3}
MaxTime == 4
MaxRows == 3
LatTimes == 1..MaxTime

\* Mutant: checked_at ascending instead of descending.
RowBefore_ascending(a, b) ==
    \/ a.eid < b.eid
    \/ a.eid = b.eid /\ a.checked_at < b.checked_at

\* ORDER BY discovered_endpoint_id, checked_at DESC
RowBefore(a, b) ==
    \/ a.eid < b.eid
    \/ a.eid = b.eid /\ a.checked_at > b.checked_at

RECURSIVE OrderBy(_)
OrderBy(S) ==
    IF S = {} THEN <<>>
    ELSE LET first == CHOOSE r \in S : \A o \in S \ {r} : RowBefore(r, o)
         IN  <<first>> \o OrderBy(S \ {first})

\* .filter(EndpointHealth.discovered_endpoint_id.in_(ids)).order_by(...).all()
all_health_data(rows, ids) ==
    OrderBy({ rows[i] : i \in { j \in 1..Len(rows) : rows[j].eid \in ids } })

\* for health_record in all_health_data: if id not in health_map: health_map[id] = ...
RECURSIVE HealthMapLoop(_, _, _)
HealthMapLoop(data, i, m) ==
    IF i > Len(data) THEN m
    ELSE IF data[i].eid \in DOMAIN m
         THEN HealthMapLoop(data, i + 1, m)
         ELSE HealthMapLoop(data, i + 1,
                  [e \in DOMAIN m \cup {data[i].eid} |->
                      IF e = data[i].eid THEN data[i] ELSE m[e]])

EmptyMap == [e \in {} |-> 0]

health_map(rows, ids) == HealthMapLoop(all_health_data(rows, ids), 1, EmptyMap)

LatestInit == lq = [pc |-> "idle", rows |-> <<>>, ids |-> {}, map |-> EmptyMap]

\* A writer appends one health row; checked_at values are distinct, and rows
\* arrive in any order of checked_at.
LedgerInsert ==
    /\ Len(lq.rows) < MaxRows
    /\ \E e \in LatIds, t \in LatTimes :
        /\ \A i \in 1..Len(lq.rows) : lq.rows[i].checked_at # t
        /\ lq' = [pc |-> "idle",
                  rows |-> Append(lq.rows,
                              [hid |-> Len(lq.rows) + 1, eid |-> e, checked_at |-> t]),
                  ids |-> {}, map |-> EmptyMap]

\* The latest-for-many query over a set of endpoint ids.
LatestForMany ==
    /\ lq.pc = "idle"
    /\ \E ids \in SUBSET LatIds :
        lq' = [lq EXCEPT !.pc = "queried", !.ids = ids,
                         !.map = health_map(lq.rows, ids)]

(***************************************************************************)
(* Idle values of the parts a specification does not exercise              *)
(***************************************************************************)

HashIdle == hq = [pc |-> "idle"]
ClassifyIdle == cq = [pc |-> "idle"]
LatestIdle == lq = [pc |-> "off"]
DbIdle ==
    /\ de = EmptyMap
    /\ health = {}
    /\ nextId = 1
    /\ now = 0
    /\ run = [pc |-> "off"]
    /\ hist = [ledger |-> {}]
ScanIdle == sc = [pc |-> "off"]
ProbeIdle == pq = [pc |-> "off"]
AuthIdle == au = [pc |-> "off"]
MonitorIdle == mo = [pc |-> "off"]
FetchIdle == fq = [pc |-> "off"]
ClockIdle == ck = [pc |-> "off"]
PoolIdle == pl = [pc |-> "off"]
CheckerIdle == hc = [pc |-> "off"]
LateIdle == FetchIdle /\ ClockIdle /\ PoolIdle /\ CheckerIdle
ExtIdle == ProbeIdle /\ AuthIdle /\ MonitorIdle /\ LateIdle

(***************************************************************************)
(* Part 4.  Discovery, reconciliation, remote scan and test-data cleanup   *)
(***************************************************************************)

Servers == {1, 2}
MaxClock == 3

\* A path is kept as <<prefix, rest>>; the string is their concatenation.
TestPrefix == "/test/health-check-"
UsersPath == <<"/", "users">>
TestPath == <<TestPrefix, "ab12">>

\* Mutant: the pattern matches every path.
LikeTestPath_any(path) == TRUE

\* path LIKE '/test/health-check-%'
LikeTestPath(path) == path[1] = TestPrefix

\* The operations a remote OpenAPI document can list, in document order.
DocOps ==
    << [path |-> UsersPath, method |-> "get",
        parameters |-> << [hasName |-> TRUE, name |-> "b", loc |-> "query"],
                          [hasName |-> TRUE, name |-> "a", loc |-> "path"] >>],
       [path |-> TestPath, method |-> "get", parameters |-> <<>>] >>

\* A remote schema: which of the operations the document lists.
Schemas == SUBSET (1..Len(DocOps))
NoSchema == {0}

OpsOf(schema) == SelectSeq(DocOps, LAMBDA op : \E k \in schema : DocOps[k] = op)

upper(m) == CASE m = "get" -> "GET" [] m = "post" -> "POST" [] OTHER -> m
lower(m) == CASE m = "GET" -> "get" [] m = "POST" -> "post" [] OTHER -> m

\* discover_endpoints, lines 52-72: walk the paths, keep the probed methods,
\* hash each operation, keep the first operation of each hash.
RECURSIVE DiscoverLoop(_, _, _)
DiscoverLoop(ops, i, unique_endpoints) ==
    IF i > Len(ops) THEN unique_endpoints
    ELSE LET op == ops[i]
             endpoint_hash == _generate_endpoint_hash(op.path, op.method, op.parameters)
         IN  IF /\ lower(op.method) \in {"get", "post", "put", "delete", "patch"}
                /\ \A j \in 1..Len(unique_endpoints) :
                       unique_endpoints[j].hash # endpoint_hash
             THEN DiscoverLoop(ops, i + 1,
                      Append(unique_endpoints,
                             [path |-> op.path, method |-> upper(op.method),
                              parameters |-> op.parameters, hash |-> endpoint_hash]))
             ELSE DiscoverLoop(ops, i + 1, unique_endpoints)

\* discover_endpoints: the candidates of a fetched document; [] when no
\* schema URL answered (lines 48-50).
discover_endpoints(fetched, schema) ==
    IF fetched THEN DiscoverLoop(OpsOf(schema), 1, <<>>) ELSE <<>>

\* Mutant: the query has no filter on the server.
RowsOfServer_any(table, s) == DOMAIN table

\* lines 84-89: the rows of the server.
RowsOfServer(table, s) == { id \in DOMAIN table : table[id].remote_server_id = s }

Restrict(f, D) == [x \in D |-> f[x]]

RunIdle ==
    [pc |-> "idle", server |-> 0, schema |-> NoSchema, fetched |-> FALSE,
     cands |-> <<>>, i |-> 0, snap |-> EmptyMap, sess |-> EmptyMap,
     added |-> <<>>, failed |-> FALSE, outcome |-> "none"]

HistInit ==
    [lastSchema |-> [s \in Servers |-> NoSchema],
     lastCount |-> [s \in Servers |-> 0],
     repeat |-> FALSE,
     stale |-> {},
     ledger |-> {}]

DbInit ==
    /\ de = EmptyMap
    /\ health = {}
    /\ nextId = 1
    /\ now = 0
    /\ run = RunIdle
    /\ hist = HistInit

\* discover_and_monitor / the discover route, first half: discover_endpoints
\* for server s.  The remote side decides whether a schema URL answers and
\* which operations the document lists.
Discover(s) ==
    /\ run.pc \in {"idle", "done"}
    /\ now < MaxClock
    /\ \E fetched \in BOOLEAN, schema \in Schemas :
        /\ fetched \/ schema = {}
        /\ run' = [RunIdle EXCEPT !.pc = "discovered", !.server = s,
                                  !.schema = schema, !.fetched = fetched,
                                  !.cands = discover_endpoints(fetched, schema)]
    /\ now' = now + 1
    /\ hist' = [hist EXCEPT !.repeat = FALSE]
    /\ UNCHANGED <<de, health, nextId>>

\* lines 96-101: the matching row is updated in the session.
UpdateExisting_keeps_inactive(existing, endpoint_data, t) ==
    [existing EXCEPT !.parameters = endpoint_data.parameters,
                     !.last_checked = t]

\* lines 94-102: the row of a candidate that is already known.
UpdateExisting(existing, endpoint_data, t) ==
    [existing EXCEPT !.parameters = endpoint_data.parameters,
                     !.last_checked = t,
                     !.is_active = TRUE]

\* lines 104-115: a new row.
NewEndpoint(s, endpoint_data, t) ==
    [remote_server_id |-> s, path |-> endpoint_data.path,
     method |-> endpoint_data.method, parameters |-> endpoint_data.parameters,
     discovered_at |-> t, last_checked |-> t, is_active |-> TRUE,
     endpoint_hash |-> endpoint_data.hash]

\* lines 91-116: the loop over the candidates, from candidate i on.  r.snap
\* is existing_endpoints as loaded, r.sess the loaded objects as the session
\* holds them, r.added the objects given to self.db.add.
RECURSIVE CandidateLoop(_, _, _)
CandidateLoop(r, i, t) ==
    IF i > Len(r.cands) THEN r
    ELSE LET endpoint_data == r.cands[i]
             hit == { id \in DOMAIN r.snap :
                         r.snap[id].endpoint_hash = endpoint_data.hash }
         IN  IF hit # {}
             THEN LET id == CHOOSE x \in hit : TRUE
                  IN  CandidateLoop(
                          [r EXCEPT !.sess[id] = UpdateExisting(r.sess[id], endpoint_data, t)],
                          i + 1, t)
             ELSE CandidateLoop(
                      [r EXCEPT !.added = Append(r.added, NewEndpoint(r.server, endpoint_data, t))],
                      i + 1, t)

current_hashes(cands) == { cands[j].hash : j \in 1..Len(cands) }

\* Mutant: the vanished row is left as it is.
Deactivate_forgotten(endpoint) == endpoint

\* line 122
Deactivate(endpoint) == [endpoint EXCEPT !.is_active = FALSE]

\* Mutant: every existing row is a vanished row.
Vanished_all(endpoint, cands) == TRUE

\* line 121
Vanished(endpoint, cands) == endpoint.endpoint_hash \notin current_hashes(cands)

\* lines 118-122: rows of the server not reported by this run become inactive.
DeactivateLoop(r) ==
    [r EXCEPT !.sess = [id \in DOMAIN r.sess |->
                           IF Vanished(r.snap[id], r.cands)
                           THEN Deactivate(r.sess[id])
                           ELSE r.sess[id]]]

\* store_discovered_endpoints, lines 84-122: the session loads the rows of
\* the server (the only read of the table), then works on its own objects
\* up to the commit.  autoflush is off (database.py line 79): nothing is
\* written before the commit.
StoreSession ==
    /\ run.pc = "discovered"
    /\ LET loaded == [run EXCEPT !.snap = Restrict(de, RowsOfServer(de, run.server)),
                                 !.sess = Restrict(de, RowsOfServer(de, run.server))]
       IN  run' = [DeactivateLoop(CandidateLoop(loaded, 1, now)) EXCEPT !.pc = "commit"]
    /\ hist' = hist
    /\ UNCHANGED <<de, health, nextId, now>>

\* The rows the session changed: an attribute set to the value it already
\* had emits no UPDATE.
Dirty(r) == { id \in DOMAIN r.sess : r.sess[id] # r.snap[id] }

\* Mutant: the INSERTs are committed on their own, the UPDATEs are not.
Flush_inserts_only(table, r, nid) ==
    [id \in DOMAIN table \cup { nid + k - 1 : k \in 1..Len(r.added) } |->
        IF id \in DOMAIN table THEN table[id] ELSE r.added[id - nid + 1]]

\* The flush of the session into the table: UPDATEs of the changed rows,
\* INSERTs of the new rows with fresh ids.
Flush(table, r, nid) ==
    [id \in DOMAIN table \cup { nid + k - 1 : k \in 1..Len(r.added) } |->
        IF id \in Dirty(r) THEN r.sess[id]
        ELSE IF id \in DOMAIN table THEN table[id]
        ELSE r.added[id - nid + 1]]

\* What makes the flush fail: an UPDATE of a row that is gone (StaleDataError)
\* or an INSERT whose endpoint_hash some row already has (unique index,
\* models.py line 147).
FlushFails(table, r) ==
    \/ \E id \in Dirty(r) : id \notin DOMAIN table
    \/ \E k \in 1..Len(r.added) :
        \/ \E id \in DOMAIN table : table[id].endpoint_hash = r.added[k].endpoint_hash
        \/ \E j \in 1..Len(r.added) :
              j # k /\ r.added[j].endpoint_hash = r.added[k].endpoint_hash

\* Mutant: what the session had flushed stays in the table.
db_rollback_keeps_flush(table, r, nid) ==
    Flush(Restrict(table, DOMAIN table), [r EXCEPT !.sess = Restrict(r.sess, DOMAIN r.sess \cap DOMAIN table)], nid)

\* self.db.rollback(), line 128: the transaction's writes are discarded.
db_rollback(table, r, nid) == table

\* line 130: raise
StoreFailed(r) == [r EXCEPT !.pc = "done", !.failed = TRUE, !.outcome = "raised"]

StaleAfter(s, r) ==
    { e \in hist.stale : e.server # s } \cup
    { [id |-> id, server |-> s, path |-> r.snap[id].path] :
        id \in { x \in DOMAIN r.snap : r.snap[x].endpoint_hash \notin current_hashes(r.cands) } }

\* line 124: self.db.commit().
StoreCommit ==
    /\ run.pc = "commit"
    /\ IF FlushFails(de, run)
       THEN /\ de' = db_rollback(de, run, nextId)
            /\ run' = StoreFailed(run)
            /\ hist' = [hist EXCEPT !.repeat = FALSE,
                                    !.lastSchema[run.server] = NoSchema]
            /\ UNCHANGED nextId
       ELSE /\ de' = Flush(de, run, nextId)
            /\ nextId' = nextId + Len(run.added)
            /\ run' = [run EXCEPT !.pc = "done", !.outcome = "returned"]
            /\ hist' = [hist EXCEPT
                  !.repeat = run.fetched /\ hist.lastSchema[run.server] = run.schema,
                  !.lastSchema[run.server] = IF run.fetched THEN run.schema ELSE NoSchema,
                  !.lastCount[run.server] =
                        Cardinality(RowsOfServer(Flush(de, run, nextId), run.server)),
                  !.stale = StaleAfter(run.server, run)]
    /\ UNCHANGED <<health, now>>

\* An exception at any point of store_discovered_endpoints (the query, a
\* candidate, the deactivation, the commit): lines 127-130.
StoreRaise ==
    /\ run.pc \in {"discovered", "commit"}
    /\ de' = db_rollback(de, run, nextId)
    /\ run' = StoreFailed(run)
    /\ hist' = [hist EXCEPT !.repeat = FALSE,
                            !.lastSchema[run.server] = NoSchema]
    /\ UNCHANGED <<health, nextId, now>>

\* cleanup_test_data, statements 1 and 2; steps is the number of statements
\* committed before an exception ends the cleanup (2: none raised).  The
\* other statements touch users, API keys and api_endpoints only.
CleanupHealth(table, rows, steps) ==
    IF steps >= 1
    THEN { h \in rows : ~(h.eid \in DOMAIN table /\ LikeTestPath(table[h.eid].path)) }
    ELSE rows

CleanupEndpoints(table, steps) ==
    IF steps >= 2
    THEN Restrict(table, { id \in DOMAIN table : ~LikeTestPath(table[id].path) })
    ELSE table

HistAfterCleanup(table2) ==
    [hist EXCEPT !.repeat = FALSE,
                 !.lastSchema = [s \in Servers |->
                      IF RowsOfServer(de, s) = RowsOfServer(table2, s)
                      THEN hist.lastSchema[s] ELSE NoSchema]]

\* cleanup_test_data run on its own (the script's entry point).
CleanupTestData ==
    /\ \E steps \in 0..2 :
        /\ health' = CleanupHealth(de, health, steps)
        /\ de' = CleanupEndpoints(de, steps)
        /\ hist' = HistAfterCleanup(CleanupEndpoints(de, steps))
    /\ UNCHANGED <<nextId, now, run>>

\* The probe outcomes the scan of this part distinguishes.
ScanCodes == {200, 404}

\* check_all_discovered_endpoints, lines 412-427: the row of one result.
HealthRow(eid, status_code, reason, t) ==
    [eid |-> eid, checked_at |-> t, status_code |-> status_code,
     is_healthy |-> status_code \in 200..399, failure_reason |-> reason]

\* lines 133-143 of api_health_scanner.py: the row of the /docs check, with
\* discovered_endpoint_id NULL (0 here).
DocsRow(t) == HealthRow(0, 200, Absent, t)

ActiveOf(table, s) == { id \in RowsOfServer(table, s) : table[id].is_active }

\* run_remote_server_health_scan(s): the checker is initialized or not, /docs
\* answers 200 or not, every active endpoint of s is probed and its row is
\* saved, and cleanup_test_data runs at the end.
RunRemoteServerHealthScan(s) ==
    /\ now < MaxClock
    /\ now' = now + 1
    /\ \E initialized \in BOOLEAN, docs \in BOOLEAN, steps \in 0..2, code \in ScanCodes :
        LET codes == [id \in ActiveOf(de, s) |-> code]
            docsRows == IF docs THEN {DocsRow(now + 1)} ELSE {}
            probeRows == IF initialized
                         THEN { HealthRow(id, codes[id], _get_failure_reason(codes[id]), now + 1) :
                                  id \in ActiveOf(de, s) }
                         ELSE {}
            written == health \cup docsRows \cup probeRows
        IN  /\ initialized \/ code = 200
            /\ health' = CleanupHealth(de, written, steps)
            /\ de' = CleanupEndpoints(de, steps)
            /\ hist' = [HistAfterCleanup(CleanupEndpoints(de, steps))
                           EXCEPT !.ledger = hist.ledger \cup docsRows \cup probeRows]
    /\ UNCHANGED <<nextId, run>>

Init == HashIdle /\ ClassifyIdle /\ LatestIdle /\ DbInit /\ ScanIdle /\ ExtIdle

Next ==
    \/ \E s \in Servers : Discover(s) /\ UNCHANGED <<hashVars, clsVars, latVars, scanVars, extVars>>
    \/ StoreSession /\ UNCHANGED <<hashVars, clsVars, latVars, scanVars, extVars>>
    \/ StoreCommit /\ UNCHANGED <<hashVars, clsVars, latVars, scanVars, extVars>>
    \/ StoreRaise /\ UNCHANGED <<hashVars, clsVars, latVars, scanVars, extVars>>
    \/ CleanupTestData /\ UNCHANGED <<hashVars, clsVars, latVars, scanVars, extVars>>
    \/ \E s \in Servers :
          RunRemoteServerHealthScan(s) /\ UNCHANGED <<hashVars, clsVars, latVars, scanVars, extVars>>

Spec == Init /\ [][Next]_vars

(***************************************************************************)
(* Part 5.  The scans: check_all_discovered_endpoints and the two          *)
(*          scan_remote_server loops                                       *)
(***************************************************************************)

\* The largest number of active endpoints of the scanned server.
MaxTargets == 3

\* batch_size is a parameter of the scans (default 5); small values make a
\* scan of MaxTargets endpoints span several chunks.
BatchSizes == {1, 2}

Scanners == {"enhanced", "remote", "simple"}

\* What one HTTP request of a probe ends in.
ProbeOutcomes ==
    { [kind |-> "http", status_code |-> c] : c \in ScanCodes }
        \cup { [kind |-> "timeout", status_code |-> 0],
               [kind |-> "error", status_code |-> 0] }

NoResult == [target |-> 0]

\* A result dict: the keys the savers read.  status_code 0 stands for None.
Result(k, has_url, status_code, has_response_time, reason) ==
    [target |-> k, has_url |-> has_url, status |-> status_code \in 200..399,
     status_code |-> status_code, has_response_time |-> has_response_time,
     failure_reason |-> reason]

\* EnhancedHealthCheck.check_endpoint_from_db
check_endpoint_from_db(initialized, k, o) ==
    IF ~initialized THEN Result(k, FALSE, 0, FALSE, Absent)
    ELSE IF o.kind = "http"
        THEN Result(k, TRUE, o.status_code, TRUE, _get_failure_reason(o.status_code))
    ELSE IF o.kind = "timeout" THEN Result(k, TRUE, 0, FALSE, "timeout")
    ELSE Result(k, TRUE, 0, FALSE, "connection_error")

\* RemoteServerScanner.check_endpoint
RemoteServerScanner_check_endpoint(initialized, k, o) ==
    IF ~initialized THEN Result(k, FALSE, 0, FALSE, Absent)
    ELSE IF o.kind = "http"
        THEN Result(k, TRUE, o.status_code, TRUE,
                    RemoteServerScanner_get_failure_reason(o.status_code))
    ELSE Result(k, TRUE, 0, FALSE, "connection_error")

\* SimpleRemoteScanner.check_endpoint
SimpleRemoteScanner_check_endpoint(k, o) ==
    IF o.kind = "http"
        THEN Result(k, TRUE, o.status_code, TRUE,
                    SimpleRemoteScanner_get_failure_reason(o.status_code))
    ELSE Result(k, TRUE, 0, FALSE, "connection_error")

\* Mutant: the slice is one element longer than batch_size.
Batch_one_more(i, batch_size, n) == { k \in 1..n : i < k /\ k <= i + batch_size + 1 }

\* batch = endpoints_to_check[i:i + batch_size], as 1-based positions.
Batch(i, batch_size, n) == { k \in 1..n : i < k /\ k <= i + batch_size }

\* Mutant: the session commits after every db.add, so that a failure of the
\* chunk's last commit leaves the earlier rows of the chunk behind.
db_commit_per_row(table, rows, ok) ==
    IF ok \/ rows = {} THEN table \cup rows
    ELSE table \cup { r \in rows : \E q \in rows : q.eid > r.eid }

\* db.add(...) for every row, then one db.commit(); on an exception rollback.
db_commit(table, rows, ok) == IF ok THEN table \cup rows ELSE table

\* lines 412-427: the rows of one chunk, one for each result with a 'url'.
BatchRows(batch_results, t) ==
    { HealthRow(r.target, r.status_code, r.failure_reason, t) :
        r \in { batch_results[k] : k \in { j \in DOMAIN batch_results :
                                            batch_results[j].has_url } } }

RECURSIVE InOrder(_, _)
InOrder(f, ks) ==
    IF ks = {} THEN << >>
    ELSE LET k == CHOOSE x \in ks : \A y \in ks : x <= y
         IN <<f[k]>> \o InOrder(f, ks \ {k})

ScanInit ==
    sc = [pc |-> "idle", scanner |-> "enhanced", initialized |-> TRUE, n |-> 0,
          batch_size |-> 1, i |-> 0, batch |-> EmptyMap, results |-> << >>,
          started |-> {}, commits |-> << >>, kinds |-> EmptyMap]

\* The call of check_all_discovered_endpoints up to its first await.
CheckAllDiscoveredEndpoints(initialized, n, bs) ==
    /\ sc.pc = "idle"
    /\ sc' = IF ~initialized
             THEN [sc EXCEPT !.pc = "returned", !.initialized = FALSE, !.n = n,
                             !.batch_size = bs,
                             !.results = <<Result(0, FALSE, 0, FALSE, Absent)>>]
             ELSE IF n = 0
             THEN [sc EXCEPT !.pc = "returned", !.batch_size = bs]
             ELSE [sc EXCEPT !.pc = "gather", !.n = n, !.batch_size = bs,
                             !.batch = [k \in Batch(0, bs, n) |-> NoResult],
                             !.started = Batch(0, bs, n)]
    /\ UNCHANGED health

\* One task of asyncio.gather completes.
ProbeDone(k, o) ==
    /\ sc.pc = "gather"
    /\ k \in DOMAIN sc.batch
    /\ sc.batch[k] = NoResult
    /\ sc' = [sc EXCEPT !.batch[k] = check_endpoint_from_db(sc.initialized, k, o),
                        !.kinds = IF sc.initialized THEN (k :> o.kind) @@ @ ELSE @]
    /\ UNCHANGED health

\* gather has returned: results.extend, the chunk's save, and the creation
\* of the next chunk's tasks (or the return).
SaveBatch(ok) ==
    /\ sc.pc = "gather"
    /\ \A k \in DOMAIN sc.batch : sc.batch[k] # NoResult
    /\ health' = db_commit(health, BatchRows(sc.batch, now), ok)
    /\ LET i2 == sc.i + sc.batch_size
           base == [sc EXCEPT
                      !.results = @ \o InOrder(sc.batch, DOMAIN sc.batch),
                      !.commits = Append(@, IF ok THEN "committed" ELSE "rolled_back"),
                      !.i = i2]
       IN sc' = IF i2 >= sc.n
                THEN [base EXCEPT !.pc = "returned", !.batch = EmptyMap]
                ELSE [base EXCEPT
                        !.batch = [k \in Batch(i2, sc.batch_size, sc.n) |-> NoResult],
                        !.started = @ \cup Batch(i2, sc.batch_size, sc.n)]

\* The call of scan_remote_server (either scanner) up to its first probe:
\* the endpoints are loaded and initialize() has run, with or without
\* success (SimpleRemoteScanner.initialize has no failing branch).
ScanRemoteServer(scanner, initialized, n) ==
    /\ sc.pc = "idle"
    /\ scanner \in {"remote", "simple"}
    /\ scanner = "simple" => initialized
    /\ sc' = [sc EXCEPT !.pc = IF n = 0 THEN "returned" ELSE "probe",
                        !.scanner = scanner, !.initialized = initialized,
                        !.n = n, !.i = 0,
                        !.started = IF n = 0 THEN {} ELSE {1}]
    /\ UNCHANGED health

\* The position after one endpoint of a scan_remote_server loop.
NextEndpoint(base) ==
    IF base.i >= base.n THEN [base EXCEPT !.pc = "returned"]
    ELSE [base EXCEPT !.started = @ \cup {base.i + 1}]

\* RemoteServerScanner.scan_remote_server, one iteration: probe, append,
\* save.  result["response_time"] raises KeyError when the key is missing,
\* and nothing in the loop catches it or a failing commit.
RemoteScanStep(o, ok) ==
    /\ sc.pc = "probe" /\ sc.scanner = "remote"
    /\ LET k == sc.i + 1
           result == RemoteServerScanner_check_endpoint(sc.initialized, k, o)
           base == [sc EXCEPT !.results = Append(@, result), !.i = k,
                              !.kinds = IF sc.initialized THEN (k :> o.kind) @@ @ ELSE @]
       IN IF ~result.has_response_time
          THEN /\ sc' = [base EXCEPT !.pc = "raised", !.commits = Append(@, "key_error")]
               /\ UNCHANGED health
          ELSE /\ health' = db_commit(health,
                     {HealthRow(k, result.status_code, result.failure_reason, now)}, ok)
               /\ sc' = IF ok
                        THEN NextEndpoint([base EXCEPT !.commits = Append(@, "committed")])
                        ELSE [base EXCEPT !.pc = "raised",
                                          !.commits = Append(@, "rolled_back")]

\* SimpleRemoteScanner.scan_remote_server, one iteration: the save is inside
\* try/except, so a KeyError or a failing commit is logged and rolled back.
SimpleScanStep(o, ok) ==
    /\ sc.pc = "probe" /\ sc.scanner = "simple"
    /\ LET k == sc.i + 1
           result == SimpleRemoteScanner_check_endpoint(k, o)
           base == [sc EXCEPT !.results = Append(@, result), !.i = k,
                              !.kinds = (k :> o.kind) @@ sc.kinds]
       IN IF ~result.has_response_time
          THEN /\ sc' = NextEndpoint([base EXCEPT !.commits = Append(@, "key_error")])
               /\ UNCHANGED health
          ELSE /\ health' = db_commit(health,
                     {HealthRow(k, result.status_code, result.failure_reason, now)}, ok)
               /\ sc' = NextEndpoint([base EXCEPT !.commits =
                            Append(@, IF ok THEN "committed" ELSE "rolled_back")])

\* The process is interrupted while a scan awaits its probes.
Crash ==
    /\ sc.pc \in {"gather", "probe"}
    /\ sc' = [sc EXCEPT !.pc = "crashed"]
    /\ UNCHANGED health

InitScan ==
    /\ HashIdle /\ ClassifyIdle /\ LatestIdle
    /\ de = EmptyMap /\ health = {} /\ nextId = 1 /\ now = 0
    /\ run = [pc |-> "off"] /\ hist = [ledger |-> {}]
    /\ ScanInit /\ ExtIdle

scanFrame == <<hq, cq, lq, de, nextId, now, run, hist, pq, au, mo, lateVars>>

NextScan ==
    \/ \E initialized \in BOOLEAN, n \in 0..MaxTargets, bs \in BatchSizes :
          CheckAllDiscoveredEndpoints(initialized, n, bs) /\ UNCHANGED scanFrame
    \/ \E k \in 1..(MaxTargets + 1), o \in ProbeOutcomes :
          ProbeDone(k, o) /\ UNCHANGED scanFrame
    \/ \E ok \in BOOLEAN : SaveBatch(ok) /\ UNCHANGED scanFrame
    \/ \E scanner \in Scanners, initialized \in BOOLEAN, n \in 0..MaxTargets :
          ScanRemoteServer(scanner, initialized, n) /\ UNCHANGED scanFrame
    \/ \E o \in ProbeOutcomes, ok \in BOOLEAN : RemoteScanStep(o, ok) /\ UNCHANGED scanFrame
    \/ \E o \in ProbeOutcomes, ok \in BOOLEAN : SimpleScanStep(o, ok) /\ UNCHANGED scanFrame
    \/ Crash /\ UNCHANGED scanFrame

SpecScan == InitScan /\ [][NextScan]_vars

(***************************************************************************)
(* Part 6.  One probe of a locally registered endpoint                     *)
(***************************************************************************)

\* The two probes of EnhancedHealthChecker: check_endpoint on a configured
\* endpoint, check_endpoint_from_db as check_all_main_endpoints calls it.
LocalProbes == {"check_endpoint", "check_endpoint_from_db"}

\* expected_status of an EndpointConfig (endpoint_config.py).
ExpectedStatuses == {200, 201, 422}

\* What the api_endpoints table holds for the probed url: no row, a row
\* with status true, a row with status false.
Registrations == {"none", "enabled", "disabled"}

ResponseOutcomes ==
    { [kind |-> "http", status_code |-> c] : c \in StatusCodes }
        \cup { [kind |-> "timeout", status_code |-> 0],
               [kind |-> "error", status_code |-> 0] }

\* check_endpoint, lines 276-289: the lookup of the APIEndpoint row and the
\* result for a disabled endpoint.  The dict has no failure_reason key.
DisabledResult ==
    [has_url |-> TRUE, status |-> FALSE, status_code |-> 503,
     has_response_time |-> TRUE, is_disabled |-> TRUE, failure_reason |-> Absent]

\* check_endpoint, lines 291-321: the result of the request.
check_endpoint(expected_status, o) ==
    IF o.kind = "http"
    THEN [has_url |-> TRUE, status |-> o.status_code = expected_status,
          status_code |-> o.status_code, has_response_time |-> TRUE,
          is_disabled |-> FALSE, failure_reason |-> Absent]
    ELSE [has_url |-> TRUE, status |-> FALSE, status_code |-> 0,
          has_response_time |-> FALSE, is_disabled |-> FALSE,
          failure_reason |-> Absent]

\* lines 264-270 and 435-441: the checker is not initialized.
UninitializedResult == Result(0, FALSE, 0, FALSE, Absent)

ProbeInit == pq = [pc |-> "idle"]

\* The probe up to its first await: it returns at once or issues the request.
ProbeStart(probe, initialized, registration, expected_status) ==
    /\ pq.pc = "idle"
    /\ LET base == [pc |-> "request", probe |-> probe, initialized |-> initialized,
                    registration |-> registration,
                    expected_status |-> expected_status,
                    requests |-> 0, result |-> NoResult]
       IN pq' = IF ~initialized
                THEN [base EXCEPT !.pc = "done", !.result = UninitializedResult]
                ELSE IF probe = "check_endpoint" /\ registration = "disabled"
                THEN [base EXCEPT !.pc = "done", !.result = DisabledResult]
                ELSE [base EXCEPT !.requests = 1]

\* The request of the probe ends.
ProbeResponse(o) ==
    /\ pq.pc = "request"
    /\ pq' = [pq EXCEPT !.pc = "done",
                        !.result = IF pq.probe = "check_endpoint"
                                   THEN check_endpoint(pq.expected_status, o)
                                   ELSE check_endpoint_from_db(TRUE, 0, o)]

probeFrame == <<hq, cq, lq, de, health, nextId, now, run, hist, sc, au, mo, lateVars>>

InitProbe ==
    /\ HashIdle /\ ClassifyIdle /\ LatestIdle /\ DbIdle /\ ScanIdle
    /\ ProbeInit /\ AuthIdle /\ MonitorIdle /\ LateIdle

NextProbe ==
    \/ \E probe \in LocalProbes, initialized \in BOOLEAN,
          registration \in Registrations, expected_status \in ExpectedStatuses :
          ProbeStart(probe, initialized, registration, expected_status)
              /\ UNCHANGED probeFrame
    \/ \E o \in ResponseOutcomes : ProbeResponse(o) /\ UNCHANGED probeFrame

SpecProbe == InitProbe /\ [][NextProbe]_vars

(***************************************************************************)
(* Part 7.  Bearer-token refresh (remote_auth_service.py)                  *)
(***************************************************************************)

\* Concurrent callers, each with the RemoteServer object of its own session.
Callers == {1, 2}

\* The number of token requests the remote side answers; refresh k, when it
\* succeeds, yields access token k and expiry k.  0 is NULL / None.
MaxRefreshes == 3

TokenAttrs == {"access_token", "token_expires_at"}

\* What the token endpoint can answer.
TokenResponses ==
    {"ok", "no_expires_in", "no_access_token", "http_error", "network_error"}

NullToken == [access_token |-> 0, token_expires_at |-> 0]

NoHeaders == "none"
Bearer(token) == <<"Bearer", token>>

\* expired_in_header: the token in the returned header had passed its stored
\* expiry when the headers were built.
CallIdle == [pc |-> "idle", op |-> "none", k |-> 0, resp |-> "none", headers |-> NoHeaders,
             expired_in_header |-> FALSE]

AuthInit ==
    au = [pc |-> "on", row |-> NullToken,
          obj |-> [c \in Callers |-> NullToken],
          dirty |-> [c \in Callers |-> {}],
          call |-> [c \in Callers |-> CallIdle],
          nextK |-> 1]

\* server.<attr> = value on the object of caller c: the attribute is pending
\* for the next flush when the value changes.
SetAttr(a, c, attr, value) ==
    [a EXCEPT !.obj[c][attr] = value,
              !.dirty[c] = IF a.obj[c][attr] = value THEN @ ELSE @ \cup {attr}]

\* self.db.commit() on the session of caller c: one UPDATE of the pending
\* attributes.  expire_on_commit is off (database.py line 81).
Commit(a, c) ==
    [a EXCEPT !.row = [attr \in TokenAttrs |->
                          IF attr \in a.dirty[c] THEN a.obj[c][attr] ELSE a.row[attr]],
              !.dirty[c] = {}]

\* The caller's session: a new one loads the row, the same one keeps its
\* object with whatever is pending on it.
Session(a, c, fresh) ==
    IF fresh THEN [a EXCEPT !.obj[c] = a.row, !.dirty[c] = {}] ELSE a

\* _is_token_expired, lines 129-133; expired says whether utcnow() has
\* passed a stored expiry.
_is_token_expired(server, expired) ==
    IF server.token_expires_at = 0 THEN TRUE ELSE expired

\* get_auth_headers of a token server, up to the request of _refresh_token
\* or, with a usable token, to its return (lines 117-121).
GetAuthHeaders(c, fresh, expired) ==
    /\ au.pc = "on"
    /\ au.call[c].pc \in {"idle", "returned", "raised"}
    /\ LET a == Session(au, c, fresh)
           server == a.obj[c]
       IN  IF server.access_token = 0 \/ _is_token_expired(server, expired)
           THEN /\ au.nextK <= MaxRefreshes
                /\ au' = [a EXCEPT !.call[c] = [CallIdle EXCEPT !.pc = "refreshing",
                                                  !.op = "get_auth_headers",
                                                  !.k = a.nextK],
                                   !.nextK = @ + 1]
           ELSE au' = [a EXCEPT !.call[c] = [CallIdle EXCEPT !.pc = "returned",
                                                !.op = "get_auth_headers",
                                                !.headers = Bearer(server.access_token)]]

\* _refresh_token, lines 147-162, from the answer of the token endpoint on,
\* and the rest of get_auth_headers (line 121) when it did not raise.
RefreshResponse(c, resp) ==
    /\ au.pc = "on"
    /\ au.call[c].pc = "refreshing"
    /\ LET k == au.call[c].k
           called == [au EXCEPT !.call[c].resp = resp]
       IN  au' =
            CASE resp = "ok" ->
                    LET a1 == SetAttr(called, c, "access_token", k)
                        a2 == Commit(SetAttr(a1, c, "token_expires_at", k), c)
                    IN  [a2 EXCEPT !.call[c].pc = "returned",
                                   !.call[c].headers = Bearer(a2.obj[c].access_token)]
              [] resp = "no_expires_in" ->
                    [SetAttr(called, c, "access_token", k) EXCEPT !.call[c].pc = "raised"]
              [] OTHER ->
                    [called EXCEPT !.call[c].pc = "raised"]

\* refresh_token, lines 93-104, up to the request of _handle_token_auth.
RefreshToken(c, fresh) ==
    /\ au.pc = "on"
    /\ au.call[c].pc \in {"idle", "returned", "raised"}
    /\ au.nextK <= MaxRefreshes
    /\ LET a == Session(au, c, fresh)
           a1 == SetAttr(a, c, "access_token", 0)
           a2 == Commit(SetAttr(a1, c, "token_expires_at", 0), c)
       IN  au' = [a2 EXCEPT !.call[c] = [CallIdle EXCEPT !.pc = "authenticating",
                                            !.op = "refresh_token", !.k = a.nextK],
                            !.nextK = @ + 1]

\* _handle_token_auth, lines 74-91, from the answer of the token endpoint on.
AuthResponse(c, resp) ==
    /\ au.pc = "on"
    /\ au.call[c].pc = "authenticating"
    /\ LET k == au.call[c].k
           called == [au EXCEPT !.call[c].resp = resp, !.call[c].pc = "returned"]
       IN  au' =
            CASE resp \in {"ok", "no_expires_in"} ->
                    LET a1 == SetAttr(called, c, "access_token", k)
                    IN  Commit(SetAttr(a1, c, "token_expires_at", k), c)
              [] resp = "no_access_token" ->
                    LET a1 == SetAttr(called, c, "access_token", 0)
                    IN  Commit(SetAttr(a1, c, "token_expires_at", k), c)
              [] OTHER -> called

\* EndpointMonitoringService._get_auth_headers of a token server
\* (endpoint_monitoring_service.py lines 30-32): the stored access token goes
\* into the header whenever it is set; token_expires_at is not read and no
\* token is requested.
MonitorAuthHeaders(c, fresh, expired) ==
    /\ au.pc = "on"
    /\ au.call[c].pc \in {"idle", "returned", "raised"}
    /\ LET a == Session(au, c, fresh)
           server == a.obj[c]
       IN  au' = [a EXCEPT !.call[c] =
                    IF server.access_token # 0
                    THEN [CallIdle EXCEPT !.pc = "returned", !.op = "_get_auth_headers",
                                          !.headers = Bearer(server.access_token),
                                          !.expired_in_header =
                                              _is_token_expired(server, expired)]
                    ELSE [CallIdle EXCEPT !.pc = "returned", !.op = "_get_auth_headers"]]

\* Another operation commits on the session of caller c.
OtherCommit(c) ==
    /\ au.pc = "on"
    /\ au.dirty[c] # {}
    /\ au' = Commit(au, c)

authFrame == <<hq, cq, lq, de, health, nextId, now, run, hist, sc, pq, mo, lateVars>>

InitAuth ==
    /\ HashIdle /\ ClassifyIdle /\ LatestIdle /\ DbIdle /\ ScanIdle
    /\ ProbeIdle /\ AuthInit /\ MonitorIdle /\ LateIdle

NextAuth ==
    \/ \E c \in Callers, fresh \in BOOLEAN, expired \in BOOLEAN :
          GetAuthHeaders(c, fresh, expired) /\ UNCHANGED authFrame
    \/ \E c \in Callers, resp \in TokenResponses :
          RefreshResponse(c, resp) /\ UNCHANGED authFrame
    \/ \E c \in Callers, fresh \in BOOLEAN : RefreshToken(c, fresh) /\ UNCHANGED authFrame
    \/ \E c \in Callers, resp \in TokenResponses :
          AuthResponse(c, resp) /\ UNCHANGED authFrame
    \/ \E c \in Callers, fresh \in BOOLEAN, expired \in BOOLEAN :
          MonitorAuthHeaders(c, fresh, expired) /\ UNCHANGED authFrame
    \/ \E c \in Callers : OtherCommit(c) /\ UNCHANGED authFrame

SpecAuth == InitAuth /\ [][NextAuth]_vars

(***************************************************************************)
(* Part 8.  EndpointMonitoringService.monitor_endpoint                     *)
(***************************************************************************)

\* The discovered endpoints a monitoring loop walks.
MonitorTargets == {1, 2}

\* The number of monitor_endpoint calls; call t reads the clock as t.
MaxCalls == 3

\* Mutant: a request that raises leaves no row behind.
MonitorRows_none_on_error(eid, o, t) ==
    IF o.kind = "http"
    THEN << [eid |-> eid, checked_at |-> t, status_code |-> o.status_code,
             is_healthy |-> o.status_code \in 200..299,
             failure_reason |-> RowReason("monitor", o.status_code)] >>
    ELSE << >>

\* lines 61-71, 79-90 and 95-105: the EndpointHealth objects one call gives
\* to self.db.add, by what the request ended in.
MonitorRows(eid, o, t) ==
    IF o.kind = "http"
    THEN << [eid |-> eid, checked_at |-> t, status_code |-> o.status_code,
             is_healthy |-> o.status_code \in 200..299,
             failure_reason |-> RowReason("monitor", o.status_code)] >>
    ELSE IF o.kind = "timeout"
    THEN << [eid |-> eid, checked_at |-> t, status_code |-> 0,
             is_healthy |-> FALSE, failure_reason |-> "timeout"] >>
    ELSE << [eid |-> eid, checked_at |-> t, status_code |-> 0,
             is_healthy |-> FALSE, failure_reason |-> "request_error"] >>

MonitorInit ==
    mo = [pc |-> "idle", table |-> << >>, endpoint |-> 0, before |-> 0,
          outcome |-> "none", commit_ok |-> TRUE, calls |-> 0]

\* monitor_endpoint(endpoint) up to its request.
MonitorEndpoint(eid) ==
    /\ mo.pc \in {"idle", "returned", "raised"}
    /\ mo.calls < MaxCalls
    /\ mo' = [mo EXCEPT !.pc = "request", !.endpoint = eid,
                        !.before = Len(mo.table), !.outcome = "none",
                        !.commit_ok = TRUE, !.calls = @ + 1]

\* The request ends: the row is added and committed, and the call returns.
\* A commit the database refuses raises out of the call (the handler's own
\* commit meets the same session).
MonitorResponse(o, ok) ==
    /\ mo.pc = "request"
    /\ mo' = IF ok
             THEN [mo EXCEPT !.pc = "returned", !.outcome = o.kind,
                             !.table = @ \o MonitorRows(mo.endpoint, o, mo.calls)]
             ELSE [mo EXCEPT !.pc = "raised", !.outcome = o.kind,
                             !.commit_ok = FALSE]

monitorFrame == <<hq, cq, lq, de, health, nextId, now, run, hist, sc, pq, au, lateVars>>

InitMonitor ==
    /\ HashIdle /\ ClassifyIdle /\ LatestIdle /\ DbIdle /\ ScanIdle
    /\ ProbeIdle /\ AuthIdle /\ MonitorInit /\ LateIdle

NextMonitor ==
    \/ \E eid \in MonitorTargets : MonitorEndpoint(eid) /\ UNCHANGED monitorFrame
    \/ \E o \in ProbeOutcomes, ok \in BOOLEAN :
          MonitorResponse(o, ok) /\ UNCHANGED monitorFrame

SpecMonitor == InitMonitor /\ [][NextMonitor]_vars

(***************************************************************************)
(* Part 9.  The schema-URL loop of discover_endpoints                      *)
(* (api_discovery_service.py lines 25-78)                                  *)
(***************************************************************************)

\* openapi_urls, lines 29-34, without the base URL.
openapi_urls == << "/openapi.json", "/docs/openapi.json", "/swagger.json", "/api-docs" >>

\* What response.json() of a 200 answer can be: a schema document, the empty
\* object, null, or a JSON value that is not an object.
NoDoc == [type |-> "none", schema |-> {}]
FalsyDocs == [type : {"empty_object", "null"}, schema : {{}}]
JsonDocs ==
    [type : {"schema"}, schema : Schemas] \cup FalsyDocs
        \cup [type : {"not_an_object"}, schema : {{}}]

\* What one GET can end in: a 200 answer whose body parses to doc, a 200
\* answer whose body does not parse, another status, or an exception of the
\* client.
FetchAnswers ==
    [kind : {"json"}, doc : JsonDocs]
        \cup [kind : {"unparseable", "not_found", "server_error", "exception"},
              doc : {NoDoc}]

\* Mutant: the loop goes on after a document was found.
Found_never(answer) == FALSE

\* Lines 39-46: the answer ends the loop (break) when its status is 200 and
\* its body parses.
Found(answer) == answer.kind = "json"

\* Lines 48-78 on the document the loop ended with (NoDoc when no URL
\* qualified): [] for a missing or falsy document, [] from the outer except
\* when the document has no .get, the unique operations otherwise.
EndpointsOf(openapi_doc) ==
    IF openapi_doc = NoDoc \/ openapi_doc \in FalsyDocs THEN <<>>
    ELSE IF openapi_doc.type = "not_an_object" THEN <<>>
    ELSE discover_endpoints(TRUE, openapi_doc.schema)

FetchInit ==
    fq = [pc |-> "loop", requests |-> <<>>, openapi_doc |-> NoDoc,
          returned |-> <<>>]

\* One iteration of the for loop, lines 37-46.
FetchUrl(answer) ==
    /\ fq.pc = "loop"
    /\ Len(fq.requests) < Len(openapi_urls)
    /\ LET url == openapi_urls[Len(fq.requests) + 1]
           requests == Append(fq.requests, [url |-> url, answer |-> answer])
       IN  fq' = IF Found(answer)
                 THEN [fq EXCEPT !.requests = requests, !.pc = "found",
                                 !.openapi_doc = answer.doc]
                 ELSE [fq EXCEPT !.requests = requests,
                                 !.pc = IF Len(requests) = Len(openapi_urls)
                                        THEN "exhausted" ELSE "loop"]

\* Lines 48-78: the rest of the call after the loop.
FetchReturn ==
    /\ fq.pc \in {"found", "exhausted"}
    /\ fq' = [fq EXCEPT !.pc = "returned", !.returned = EndpointsOf(fq.openapi_doc)]

fetchFrame == <<hq, cq, lq, de, health, nextId, now, run, hist, sc, pq, au, mo,
                ck, pl, hc>>

InitFetch ==
    /\ HashIdle /\ ClassifyIdle /\ LatestIdle /\ DbIdle /\ ScanIdle
    /\ ProbeIdle /\ AuthIdle /\ MonitorIdle
    /\ FetchInit /\ ClockIdle /\ PoolIdle /\ CheckerIdle

NextFetch ==
    \/ \E answer \in FetchAnswers : FetchUrl(answer) /\ UNCHANGED fetchFrame
    \/ FetchReturn /\ UNCHANGED fetchFrame

SpecFetch == InitFetch /\ [][NextFetch]_vars

(***************************************************************************)
(* Part 10.  The clocks behind checked_at                                  *)
(* (endpoint_monitoring_service.py lines 61-71, enhanced_health_check.py   *)
(* lines 416-427, remote_server_service.py lines 193-218)                  *)
(***************************************************************************)

ClockTargets == {1, 2}
MaxUtc == 3
MaxWrites == 3

\* The offset of the host's local time from UTC, in ticks of the clock: the
\* code sets no time zone, the host decides.
Offsets == {-1, 0, 1}

\* datetime.utcnow(): monitor_endpoint, lines 68, 88, 103.
utcnow(c) == c.utc

\* datetime.now() without tzinfo: the batch scanners (enhanced_health_check.py
\* lines 366 and 421, remote_server_scanner.py line 237,
\* simple_remote_scanner.py line 182).
local_now(c) == c.utc + c.offset

ClockInit ==
    \E offset \in Offsets :
        ck = [pc |-> "on", utc |-> 0, offset |-> offset, rows |-> <<>>,
              endpoint |-> 0, latest |-> 0]

\* Time passes.
ClockTick ==
    /\ ck.pc = "on"
    /\ ck.utc < MaxUtc
    /\ ck' = [ck EXCEPT !.utc = @ + 1]

\* monitor_endpoint commits the row of a probe.
MonitorWrite(eid) ==
    /\ ck.pc = "on"
    /\ Len(ck.rows) < MaxWrites
    /\ ck' = [ck EXCEPT !.rows = Append(@, [eid |-> eid, writer |-> "monitor",
                                            checked_at |-> utcnow(ck)]),
                        !.endpoint = 0, !.latest = 0]

\* A batch scanner commits the row of a probe.
ScannerWrite(eid) ==
    /\ ck.pc = "on"
    /\ Len(ck.rows) < MaxWrites
    /\ ck' = [ck EXCEPT !.rows = Append(@, [eid |-> eid, writer |-> "scanner",
                                            checked_at |-> local_now(ck)]),
                        !.endpoint = 0, !.latest = 0]

\* get_server_endpoints, lines 202-204: order_by(checked_at.desc()).first()
\* of the rows of one endpoint; latest is the position of the row in
\* insertion order, 0 for None (and again 0 once a later write has made the
\* answer old).  Rows with equal checked_at come in any order.
GetServerEndpoints(eid) ==
    /\ ck.pc = "on"
    /\ LET mine == { j \in 1..Len(ck.rows) : ck.rows[j].eid = eid }
           top == { j \in mine : \A i \in mine :
                                    ck.rows[i].checked_at <= ck.rows[j].checked_at }
       IN  IF mine = {}
           THEN ck' = [ck EXCEPT !.endpoint = eid, !.latest = 0]
           ELSE \E j \in top : ck' = [ck EXCEPT !.endpoint = eid, !.latest = j]

clockFrame == <<hq, cq, lq, de, health, nextId, now, run, hist, sc, pq, au, mo,
                fq, pl, hc>>

InitClock ==
    /\ HashIdle /\ ClassifyIdle /\ LatestIdle /\ DbIdle /\ ScanIdle
    /\ ProbeIdle /\ AuthIdle /\ MonitorIdle
    /\ FetchIdle /\ ClockInit /\ PoolIdle /\ CheckerIdle

NextClock ==
    \/ ClockTick /\ UNCHANGED clockFrame
    \/ \E eid \in ClockTargets : MonitorWrite(eid) /\ UNCHANGED clockFrame
    \/ \E eid \in ClockTargets : ScannerWrite(eid) /\ UNCHANGED clockFrame
    \/ \E eid \in ClockTargets : GetServerEndpoints(eid) /\ UNCHANGED clockFrame

SpecClock == InitClock /\ [][NextClock]_vars

(***************************************************************************)
(* Part 11.  The session pool (database.py lines 75-198)                   *)
(***************************************************************************)

PoolUsers == {1, 2}

\* POOL_SIZE and MAX_OVERFLOW (lines 23-24: 50 and 50), scaled down; the
\* queue holds at most PoolSize + MaxOverflow sessions (line 83).
PoolSize == 2
MaxOverflow == 2

\* The number of sessions the factory makes in one behaviour.
MaxSessions == 4

UserIdle == [pc |-> "idle", session |-> 0, puts |-> 0, received |-> "none"]

\* SessionManager.__init__ and _initialize_pool, lines 76-96: sessions
\* 1..PoolSize are in the queue.
PoolInit ==
    pl = [pc |-> "on", queue |-> [k \in 1..PoolSize |-> k], made |-> PoolSize,
          users |-> [u \in PoolUsers |-> UserIdle]]

\* SessionManager.get_session, lines 98-112: a new session when the queue is
\* empty, the head of the queue otherwise.
get_session(p) == IF p.queue = <<>> THEN p.made + 1 ELSE Head(p.queue)
AfterGet(p) ==
    IF p.queue = <<>> THEN [p EXCEPT !.made = @ + 1] ELSE [p EXCEPT !.queue = Tail(@)]

\* SessionManager.return_session, lines 114-128: put unless the queue is
\* full, close the session otherwise.
return_session(p, session) ==
    IF Len(p.queue) < PoolSize + MaxOverflow
    THEN [p EXCEPT !.queue = Append(@, session)]
    ELSE p

\* get_db_session, lines 181-183, first attempt: the session is taken and
\* yielded to the body of the with statement.
PoolEnter(u) ==
    /\ pl.pc = "on"
    /\ pl.users[u].pc \in {"idle", "done"}
    /\ get_session(pl) <= MaxSessions
    /\ pl' = [AfterGet(pl) EXCEPT !.users[u] =
                 [UserIdle EXCEPT !.pc = "body", !.session = get_session(pl)]]

\* Lines 186-198 after an exception at the yield or at the commit of the
\* first attempt: the except clause rolls back and returns the session, the
\* finally clause returns it again, the loop takes a session for the second
\* attempt and yields it; a generator that yields after throw() (or after
\* the body has ended) makes the context manager raise RuntimeError.
ExceptPath(p, u) ==
    LET session == p.users[u].session
        p1 == return_session(p, session)
        p2 == return_session(p1, session)
    IN  [AfterGet(p2) EXCEPT !.users[u] =
            [pc |-> "suspended", session |-> get_session(p2),
             puts |-> 2, received |-> "RuntimeError"]]

\* The body ends without an exception: commit (line 184), break, finally
\* (lines 196-198); a commit that raises takes the except clause.
BodyCompletes(u, commit_ok) ==
    /\ pl.pc = "on"
    /\ pl.users[u].pc = "body"
    /\ IF commit_ok
       THEN pl' = [return_session(pl, pl.users[u].session) EXCEPT
                      !.users[u].pc = "done", !.users[u].puts = 1,
                      !.users[u].received = "returned"]
       ELSE pl' = ExceptPath(pl, u)

\* The body raises.
BodyRaises(u) ==
    /\ pl.pc = "on"
    /\ pl.users[u].pc = "body"
    /\ pl' = ExceptPath(pl, u)

\* The suspended generator is closed when it is collected: GeneratorExit at
\* the yield passes the except clause and runs the finally clause, which
\* returns the session of the second attempt.
GeneratorClose(u) ==
    /\ pl.pc = "on"
    /\ pl.users[u].pc = "suspended"
    /\ pl' = [return_session(pl, pl.users[u].session) EXCEPT !.users[u].pc = "done"]

poolFrame == <<hq, cq, lq, de, health, nextId, now, run, hist, sc, pq, au, mo,
               fq, ck, hc>>

InitPool ==
    /\ HashIdle /\ ClassifyIdle /\ LatestIdle /\ DbIdle /\ ScanIdle
    /\ ProbeIdle /\ AuthIdle /\ MonitorIdle
    /\ FetchIdle /\ ClockIdle /\ PoolInit /\ CheckerIdle

NextPool ==
    \/ \E u \in PoolUsers : PoolEnter(u) /\ UNCHANGED poolFrame
    \/ \E u \in PoolUsers, commit_ok \in BOOLEAN :
          BodyCompletes(u, commit_ok) /\ UNCHANGED poolFrame
    \/ \E u \in PoolUsers : BodyRaises(u) /\ UNCHANGED poolFrame
    \/ \E u \in PoolUsers : GeneratorClose(u) /\ UNCHANGED poolFrame

SpecPool == InitPool /\ [][NextPool]_vars

(***************************************************************************)
(* Part 12.  EnhancedHealthChecker.initialize and close                    *)
(* (enhanced_health_check.py lines 90-207)                                 *)
(***************************************************************************)

None == "None"
BaseUrls == {"http://b1", "http://b2"}
Credentials == {"a1", "a2"}

\* self.max_retries, line 95.
max_retries == 3

\* What one round of the token loop can end in: create_test_data raises
\* before a request is made, the request raises, the answer is not 200, the
\* answer is 200 and its body is not JSON (response.json() raises), the
\* answer is 200 with or without an access_token in its body.
TokenAnswers ==
    {"test_data_error", "request_error", "refused", "ok_not_json", "ok_no_token", "ok"}

IsRequest(answer) == answer # "test_data_error"
Is200(answer) == answer \in {"ok_not_json", "ok_no_token", "ok"}

NoCall == [pc |-> "none", base_url |-> None, basic_auth |-> None, attempt |-> 0,
           requests |-> 0, answered_200 |-> FALSE]

\* __init__, lines 90-98.
CheckerInit ==
    hc = [pc |-> "on", session |-> None, base_url |-> None, auth_token |-> None,
          _is_initialized |-> FALSE, basic_auth |-> None, call |-> NoCall]

\* close, lines 197-207: base_url and basic_auth stay as they are.
close(h) ==
    [h EXCEPT !.session = None, !.auth_token = None, !._is_initialized = FALSE]

\* initialize, lines 100-137 and 191-195, up to the first round of the token
\* loop or, with credentials or an early return, to its end.
Initialize(base_url, basic_auth, session_ok) ==
    /\ hc.pc = "on"
    /\ hc.call.pc # "requesting"
    /\ LET call == [NoCall EXCEPT !.base_url = base_url, !.basic_auth = basic_auth]
       IN  IF hc._is_initialized
           THEN hc' = [hc EXCEPT !.call = [call EXCEPT !.pc = "returned"]]
           ELSE IF ~session_ok
           THEN hc' = [close(hc) EXCEPT !.call = [call EXCEPT !.pc = "returned"]]
           ELSE LET h1 == [hc EXCEPT !.session = "open",
                                     !.base_url = IF base_url # None THEN base_url
                                                  ELSE "http://localhost:8000",
                                     !.basic_auth = IF basic_auth # None THEN basic_auth
                                                    ELSE @]
                IN  IF h1.basic_auth = None
                    THEN hc' = [h1 EXCEPT !.call = [call EXCEPT !.pc = "requesting"]]
                    ELSE hc' = [h1 EXCEPT !._is_initialized = TRUE,
                                          !.call = [call EXCEPT !.pc = "returned"]]

\* One round of the token loop, lines 141-190.
TokenRound(answer) ==
    /\ hc.pc = "on"
    /\ hc.call.pc = "requesting"
    /\ LET counted == [hc EXCEPT
                          !.call.requests = IF IsRequest(answer) THEN @ + 1 ELSE @,
                          !.call.answered_200 = @ \/ Is200(answer)]
       IN  IF answer \in {"ok", "ok_no_token"}
           THEN hc' = [counted EXCEPT
                          !.auth_token = IF answer = "ok" THEN "token" ELSE None,
                          !._is_initialized = TRUE,
                          !.call.pc = "returned"]
           ELSE IF hc.call.attempt < max_retries - 1
           THEN hc' = [counted EXCEPT !.call.attempt = @ + 1]
           ELSE hc' = [close(counted) EXCEPT !.call.pc = "returned"]

\* close() by the owner of the checker.
Close ==
    /\ hc.pc = "on"
    /\ hc.call.pc # "requesting"
    /\ hc' = [close(hc) EXCEPT !.call = NoCall]

checkerFrame == <<hq, cq, lq, de, health, nextId, now, run, hist, sc, pq, au, mo,
                  fq, ck, pl>>

InitChecker ==
    /\ HashIdle /\ ClassifyIdle /\ LatestIdle /\ DbIdle /\ ScanIdle
    /\ ProbeIdle /\ AuthIdle /\ MonitorIdle
    /\ FetchIdle /\ ClockIdle /\ PoolIdle /\ CheckerInit

NextChecker ==
    \/ \E base_url \in BaseUrls \cup {None}, basic_auth \in Credentials \cup {None},
          session_ok \in BOOLEAN :
          Initialize(base_url, basic_auth, session_ok) /\ UNCHANGED checkerFrame
    \/ \E answer \in TokenAnswers : TokenRound(answer) /\ UNCHANGED checkerFrame
    \/ Close /\ UNCHANGED checkerFrame

SpecChecker == InitChecker /\ [][NextChecker]_vars

(***************************************************************************)
(* Specifications of the pure parts                                        *)
(***************************************************************************)

InitHash == HashInit /\ ClassifyIdle /\ LatestIdle /\ DbIdle /\ ScanIdle /\ ExtIdle
NextHash == HashCall /\ UNCHANGED <<clsVars, latVars, dbVars, scanVars, extVars>>
SpecHash == InitHash /\ [][NextHash]_vars

InitClassify == HashIdle /\ ClassifyInit /\ LatestIdle /\ DbIdle /\ ScanIdle /\ ExtIdle
NextClassify == Classify /\ UNCHANGED <<hashVars, latVars, dbVars, scanVars, extVars>>
SpecClassify == InitClassify /\ [][NextClassify]_vars

InitLatest == HashIdle /\ ClassifyIdle /\ LatestInit /\ DbIdle /\ ScanIdle /\ ExtIdle
NextLatest ==
    \/ LedgerInsert /\ UNCHANGED <<hashVars, clsVars, dbVars, scanVars, extVars>>
    \/ LatestForMany /\ UNCHANGED <<hashVars, clsVars, dbVars, scanVars, extVars>>
SpecLatest == InitLatest /\ [][NextLatest]_vars

(***************************************************************************)
(* Claims about the pure parts                                             *)
(***************************************************************************)

\* C4 (as stated): for every path, method and parameter list P, including
\* lists where two parameters share a name or have none, the hash of every
\* permutation of P equals the hash of P.
C4_HashStableUnderPermutation ==
    hq.pc = "done" => hq.h1 = hq.h2

\* The fixed table of the specification, section 4.4.
FixedTable(status_code) ==
    IF status_code = 401 THEN "authentication_required"
    ELSE IF status_code = 403 THEN "forbidden"
    ELSE IF status_code = 404 THEN "not_found"
    ELSE IF status_code = 405 THEN "method_not_allowed"
    ELSE IF status_code = 422 THEN "validation_error"
    ELSE IF status_code = 429 THEN "rate_limited"
    ELSE IF status_code \in 400..499 THEN "client_error"
    ELSE IF status_code \in 500..599 THEN "server_error"
    ELSE "unknown_error"

\* C8 (as stated): on every probe path, a status code outside 200..399 is
\* given, in the probe result and in the persisted row, exactly the failure
\* reason of the fixed table.  (A result dict that carries no failure_reason
\* key at all, as monitor_endpoint's, is not held against the claim here.)
C8_ClassificationTableOnEveryPath ==
    (cq.pc = "done" /\ cq.status_code \notin 200..399) =>
        /\ cq.result_reason # Absent => cq.result_reason = FixedTable(cq.status_code)
        /\ cq.row_reason = FixedTable(cq.status_code)

RowsOf(e) == { lq.rows[i] : i \in { j \in 1..Len(lq.rows) : lq.rows[j].eid = e } }

\* C10: the map built by the latest-for-many query holds, for each queried
\* endpoint id that has at least one row, exactly the row with the maximum
\* checked_at of that id, whatever the insertion order, and no entry for an
\* id without rows (or an id that was not queried).
C10_LatestPerEndpoint ==
    lq.pc = "queried" =>
        /\ DOMAIN lq.map = { e \in lq.ids : RowsOf(e) # {} }
        /\ \A e \in DOMAIN lq.map :
            /\ lq.map[e] \in RowsOf(e)
            /\ \A r \in RowsOf(e) : r.checked_at <= lq.map[e].checked_at

\* C10 witness: the query answered for two endpoints, one of whose latest
\* row was inserted before an older row of the same endpoint.
C10_Witness ==
    /\ lq.pc = "queried"
    /\ Cardinality(DOMAIN lq.map) >= 2
    /\ \E e \in DOMAIN lq.map : \E r \in RowsOf(e) :
        r.hid > lq.map[e].hid /\ r.checked_at < lq.map[e].checked_at

(***************************************************************************)
(* Claims about discovery, reconciliation, scan and cleanup (Spec)         *)
(***************************************************************************)

\* The step that ends a store_discovered_endpoints call.
StoreEnds == run.pc \in {"discovered", "commit"} /\ run'.pc = "done"

ReportedRowsActive(table, s, cands) ==
    \A id \in RowsOfServer(table, s) :
        table[id].endpoint_hash \in current_hashes(cands) => table[id].is_active

\* C1: when discovery and reconciliation of a server run a second time on
\* the same fetched schema as the run before (which committed, and whose
\* rows nothing else touched since), the second run inserts no row: the
\* server's row count equals the count after the first run, and every row
\* the schema reports is active after the first and after the second run.
C1_DedupIdempotent ==
    [][ /\ (StoreEnds /\ run.fetched /\ hist.lastSchema[run.server] = run.schema) =>
            /\ Cardinality(RowsOfServer(de', run.server)) = hist.lastCount[run.server]
            /\ ReportedRowsActive(de', run.server, run.cands)
        /\ (StoreEnds /\ ~run'.failed) =>
            ReportedRowsActive(de', run.server, run.cands)
      ]_vars

\* C1 witness: a second run on the unchanged schema has committed for a
\* server that owns rows.
C1_Witness ==
    /\ run.pc = "done" /\ ~run.failed /\ hist.repeat
    /\ Len(run.cands) >= 1
    /\ Cardinality(RowsOfServer(de, run.server)) >= 1

\* The path begins with '/test/health-check-'.
BeginsWithTestPrefix(path) == Len(path) >= 1 /\ path[1] = TestPrefix

StaleRowKept(st) ==
    /\ st.id \in DOMAIN de
    /\ ~de[st.id].is_active
    /\ \A h \in hist.ledger : h.eid = st.id => h \in health

\* C2 (as stated): an endpoint that the latest reconciliation of its server
\* found missing from the candidate set keeps its row, inactive, and every
\* health row that referenced it, also after later scans and their cleanup.
C2_StaleRowAndHistoryKept ==
    \A st \in hist.stale : StaleRowKept(st)

\* C2 (amended): the same for every endpoint whose path does not match the
\* test-data pattern '/test/health-check-%'.
C2_StaleRowKeptUnlessTestPath ==
    \A st \in hist.stale : ~BeginsWithTestPrefix(st.path) => StaleRowKept(st)

\* C2 witness: a vanished endpoint with health history, inactive, after a
\* cleanup that removed other rows.
C2_Witness ==
    /\ hist.ledger # health
    /\ \E st \in hist.stale :
        /\ ~BeginsWithTestPrefix(st.path)
        /\ StaleRowKept(st)
        /\ \E h \in health : h.eid = st.id

\* C3: a store_discovered_endpoints call that fails, at whatever point,
\* leaves every discovered_endpoints row as it was (as does every step of
\* the call before its commit) and ends by raising to its caller.
C3_AllOrNothing ==
    [][ (/\ run.pc \in {"discovered", "commit"}
         /\ run' # run
         /\ ~(run'.pc = "done" /\ ~run'.failed)) =>
            /\ de' = de
            /\ run'.pc = "done" => run'.outcome = "raised"
      ]_vars

\* C3 witness: a call with pending inserts or updates has failed.
C3_Witness ==
    /\ run.pc = "done" /\ run.failed /\ run.outcome = "raised"
    /\ (Len(run.added) > 0 \/ Dirty(run) # {})
    /\ RowsOfServer(de, run.server) # {}

\* C9 (as stated): a committed health row is never modified or removed.
C9_LedgerAppendOnly ==
    [][ health \subseteq health' ]_vars

\* C9 (amended): a committed health row is never modified, and it is removed
\* only by the test-data cleanup and only when the endpoint it references
\* has a path matching '/test/health-check-%'; rows of other endpoints and
\* rows without an endpoint are never removed.
C9_OnlyTestRowsRemoved ==
    [][ \A h \in health :
            h \notin health' =>
                (h.eid \in DOMAIN de /\ BeginsWithTestPrefix(de[h.eid].path))
      ]_vars

\* C9 witness: the cleanup has removed rows while a row of another endpoint
\* and a row without endpoint are still in the ledger.
C9_Witness ==
    /\ hist.ledger # health
    /\ \E h \in health : h.eid = 0
    /\ \E h \in health : h.eid # 0

(***************************************************************************)
(* Claims about the scans (SpecScan)                                       *)
(***************************************************************************)

\* The chunks of the running batched scan, numbered from 0.
ChunkIds == 0..((sc.n + sc.batch_size - 1) \div sc.batch_size - 1)
Chunk(c) == Batch(c * sc.batch_size, sc.batch_size, sc.n)
ChunkRows(c) == { h \in health : h.eid \in Chunk(c) }
ResultOf(k) == sc.results[k]
ChunkExpected(c) ==
    { HealthRow(k, ResultOf(k).status_code, ResultOf(k).failure_reason, now) :
        k \in { j \in Chunk(c) : ResultOf(j).has_url } }

\* C5: in a batched scan the rows of a chunk are persisted all together by
\* the chunk's one commit or not at all; no probe of a chunk has started
\* before the commit of every earlier chunk completed; and at every point,
\* so also where the scan is interrupted, the rows of each committed chunk
\* are persisted and no row of a chunk not yet saved is.
C5_BatchAtomicity ==
    (sc.scanner = "enhanced" /\ sc.pc \in {"gather", "returned", "crashed"} /\ sc.initialized) =>
        \A c \in ChunkIds :
            /\ (c < Len(sc.commits) /\ sc.commits[c + 1] = "committed") =>
                    ChunkRows(c) = ChunkExpected(c)
            /\ (c < Len(sc.commits) /\ sc.commits[c + 1] = "rolled_back") =>
                    ChunkRows(c) = {}
            /\ c >= Len(sc.commits) => ChunkRows(c) = {}
            /\ Chunk(c) \cap sc.started # {} => Len(sc.commits) >= c

\* C5 witness: a scan of three chunks is interrupted after its first chunk
\* was committed; a probe of the second chunk has already answered.
C5_Witness ==
    /\ sc.scanner = "enhanced" /\ sc.pc = "crashed"
    /\ sc.n = 3 /\ sc.batch_size = 1
    /\ sc.commits = <<"committed">>
    /\ ChunkRows(0) # {}
    /\ \E k \in DOMAIN sc.batch : sc.batch[k] # NoResult /\ sc.batch[k].has_url
    /\ ChunkRows(1) = {} /\ ChunkRows(2) = {}

\* C6 (as stated): every scan of a server with n active endpoints, in every
\* state of the checker and whatever the probes end in, returns a list of
\* exactly n results.
C6_OneResultPerTarget ==
    sc.pc \in {"returned", "raised"} =>
        (sc.pc = "returned" /\ Len(sc.results) = sc.n)

IsProbeFailure(r) == r.failure_reason \in {"timeout", "connection_error"}

\* C7 (as stated): when a probe of a scan ends in a timeout or a connection
\* error (and no commit of the scan failed in the database), the scan has
\* persisted a row for that endpoint with the failure reason, has raised
\* nothing to its caller, and has probed every target.
C7_ProbeFailureAbsorbed ==
    (/\ sc.pc \in {"returned", "raised"}
     /\ \A j \in 1..Len(sc.commits) : sc.commits[j] # "rolled_back") =>
        \A j \in 1..Len(sc.results) :
            IsProbeFailure(sc.results[j]) =>
                /\ sc.pc = "returned"
                /\ Len(sc.results) = sc.n
                /\ \E h \in health :
                    /\ h.eid = sc.results[j].target
                    /\ h.failure_reason = sc.results[j].failure_reason

(***************************************************************************)
(* Claims about single probes (SpecProbe, SpecClassify)                    *)
(***************************************************************************)

\* C11 (as stated): whenever an initialized checker probes a registered
\* endpoint whose enabled flag is false, by check_endpoint or as a target of
\* check_all_main_endpoints, it issues no network request and the result has
\* status_code 503 and failure_reason "disabled".
C11_DisabledShortCircuit ==
    (pq.pc \in {"request", "done"} /\ pq.initialized /\ pq.registration = "disabled") =>
        /\ pq.requests = 0
        /\ pq.pc = "done"
        /\ pq.result.status_code = 503
        /\ pq.result.failure_reason = "disabled"

(***************************************************************************)
(* Claims about the bearer token (SpecAuth)                                *)
(***************************************************************************)

\* C12 (as stated): under any interleaving of callers refreshing the token
\* of one server, no caller ends with an exception, and the committed row
\* holds access_token and token_expires_at either both null or both written
\* by one and the same refresh.
C12_TokenPairConsistent ==
    /\ \A c \in Callers : au.call[c].pc # "raised"
    /\ au.row.access_token = au.row.token_expires_at

\* C13 (as stated): when the token request behind get_auth_headers fails
\* (network failure or non-2xx answer), get_auth_headers returns the empty
\* header mapping and raises nothing.
C13_CredentialFailureNotFatal ==
    \A c \in Callers :
        (/\ au.call[c].op = "get_auth_headers"
         /\ au.call[c].resp \in {"http_error", "network_error"}) =>
            /\ au.call[c].pc = "returned"
            /\ au.call[c].headers = NoHeaders

(***************************************************************************)
(* Claims about monitor_endpoint (SpecMonitor)                             *)
(***************************************************************************)

\* C14: every monitor_endpoint call whose commit the database accepts, be the
\* request answered with a success status, an error status, timed out or
\* raised, has committed exactly one new row when it returns, the row
\* references the endpoint of the call, and only a refused commit makes a
\* call raise.
C14_MonitorCommitsOneRow ==
    /\ mo.pc = "returned" =>
          /\ Len(mo.table) = mo.before + 1
          /\ mo.table[Len(mo.table)].eid = mo.endpoint
          /\ mo.table[Len(mo.table)].checked_at = mo.calls
    /\ mo.pc = "raised" => ~mo.commit_ok

\* C14 witness: a call whose request raised has returned with its row, after
\* an earlier call of another outcome.
C14_Witness ==
    /\ mo.pc = "returned" /\ mo.outcome = "error"
    /\ Len(mo.table) >= 2
    /\ mo.table[Len(mo.table)].failure_reason = "request_error"
    /\ mo.table[1].status_code # 0

\* C15 (as stated): a probe answered with a status in 200-399 is returned
\* and persisted without a failure reason.
C15_SuccessHasNoFailureReason ==
    (cq.pc = "done" /\ cq.status_code \in 200..399) =>
        /\ cq.result_reason = Absent
        /\ cq.row_reason = Absent

(***************************************************************************)
(* Further claims about discovery and reconciliation (Spec)                *)
(***************************************************************************)

ServerRows(table, s) == Restrict(table, RowsOfServer(table, s))

\* C16 (as stated): when no schema URL yielded a schema, no step of the
\* discover-and-store invocation changes a row of the server.
C16_FetchFailureIsNoRun ==
    [][ (run.pc \in {"discovered", "commit"} /\ ~run.fetched /\ run' # run) =>
            ServerRows(de', run.server) = ServerRows(de, run.server)
      ]_vars

\* A candidate of the run has the hash of a row another server owns.
OwnedElsewhere ==
    \E j \in 1..Len(run.cands) : \E id \in DOMAIN de :
        /\ de[id].remote_server_id # run.server
        /\ de[id].endpoint_hash = run.cands[j].hash

\* C17 (as stated): also when a different server owns a row for the same
\* path, method and parameters, after reconcile(S, candidates) every
\* candidate has exactly one active row owned by S.
C17_OneActiveRowPerCandidate ==
    [][ (run.pc = "commit" /\ run'.pc = "done" /\ OwnedElsewhere) =>
            \A j \in 1..Len(run.cands) :
                Cardinality({ id \in RowsOfServer(de', run.server) :
                                /\ de'[id].endpoint_hash = run.cands[j].hash
                                /\ de'[id].is_active }) = 1
      ]_vars

\* The table shows every update, deactivation and insert of the session.
AfterComplete ==
    /\ \A id \in Dirty(run) : id \in DOMAIN de' /\ de'[id] = run.sess[id]
    /\ \A id \in DOMAIN de \ Dirty(run) : id \in DOMAIN de' /\ de'[id] = de[id]
    /\ Cardinality(DOMAIN de' \ DOMAIN de) = Len(run.added)
    /\ \A k \in 1..Len(run.added) :
          \E id \in DOMAIN de' \ DOMAIN de : de'[id] = run.added[k]

\* C19: a reader of the committed table during a store_discovered_endpoints
\* call sees, at every step of the call, either the table as the step found
\* it or, at the one successful commit, the table with all of the run's
\* updates, inserts and deactivations.
C19_ReaderSeesBeforeOrAfter ==
    [][ (run.pc \in {"discovered", "commit"} /\ run' # run) =>
            \/ de' = de
            \/ run'.pc = "done" /\ ~run'.failed /\ AfterComplete
      ]_vars

\* C19 witness: a run has committed an insert together with a deactivation.
C19_Witness ==
    /\ run.pc = "done" /\ ~run.failed
    /\ Len(run.added) >= 1
    /\ \E id \in Dirty(run) : ~run.sess[id].is_active /\ id \in DOMAIN de /\ ~de[id].is_active
    /\ \E id \in DOMAIN de : de[id].is_active /\ de[id].remote_server_id = run.server

\* C20 (as stated): the stored endpoint_hash of every row is the hash of the
\* row's path, its method as stored (upper case) and its parameters.
C20_HashOfStoredMethod ==
    \A id \in DOMAIN de :
        de[id].endpoint_hash =
            _generate_endpoint_hash(de[id].path, de[id].method, de[id].parameters)

(***************************************************************************)
(* Further claims about the scans (SpecScan)                               *)
(***************************************************************************)

\* The probes of the scan that have started and not completed.
InFlight ==
    IF sc.pc = "gather" THEN { k \in DOMAIN sc.batch : sc.batch[k] = NoResult }
    ELSE IF sc.pc = "probe" THEN {sc.i + 1}
    ELSE {}

ChunkOf(k) == (k - 1) \div sc.batch_size

\* C18: while a scan runs, its targets are taken as consecutive chunks of
\* batch_size, at most batch_size probes are in flight, and a started probe
\* never belongs to a later chunk than a probe still in flight: every probe
\* of the earlier chunks has completed and its result is in the list.
C18_BoundedConcurrency ==
    sc.pc \in {"gather", "probe"} =>
        /\ Cardinality(InFlight) <= sc.batch_size
        /\ \A j \in InFlight : \A k \in sc.started : ChunkOf(k) <= ChunkOf(j)
        /\ sc.started = 1..Cardinality(sc.started)
        /\ sc.pc = "gather" =>
              /\ sc.i % sc.batch_size = 0
              /\ DOMAIN sc.batch = Chunk(sc.i \div sc.batch_size)
              /\ Len(sc.results) = sc.i
              /\ sc.started = 1..(sc.i + Cardinality(DOMAIN sc.batch))
        /\ sc.pc = "probe" => Len(sc.results) = sc.i

\* C18 witness: the last, shorter chunk of a scan with batch size 2 is in
\* flight after the two probes of the first chunk completed.
C18_Witness ==
    /\ sc.pc = "gather" /\ sc.batch_size = 2 /\ sc.n = 3
    /\ sc.i = 2 /\ InFlight = {3}
    /\ Len(sc.results) = 2

(***************************************************************************)
(* Claims about probe outcomes (SpecClassify, SpecScan)                    *)
(***************************************************************************)

\* C21 (as stated): on every probe path a response with a status in 200-399
\* is persisted with is_healthy = true.
C21_SuccessRangeIsHealthy ==
    (cq.pc = "done" /\ cq.status_code \in 200..399) => cq.row_healthy

\* C22 (as stated): when the request of a probe timed out, the result of the
\* probe and every health row persisted for it carry the reason "timeout".
C22_TimeoutReason ==
    sc.pc \in {"gather", "probe", "returned", "raised", "crashed"} =>
        \A j \in 1..Len(sc.results) :
            LET r == sc.results[j]
            IN  (r.target \in DOMAIN sc.kinds /\ sc.kinds[r.target] = "timeout") =>
                    /\ r.failure_reason = "timeout"
                    /\ \A h \in health : h.eid = r.target => h.failure_reason = "timeout"

\* C23 (as stated, last part): a token that has passed its stored expiry is
\* never placed in the Authorization header of a probe.
C23_NoExpiredTokenInHeader ==
    au.pc = "on" =>
        \A c \in Callers :
            (au.call[c].pc = "returned" /\ au.call[c].headers # NoHeaders) =>
                ~au.call[c].expired_in_header

(***************************************************************************)
(* Claims about the schema-URL loop (SpecFetch)                            *)
(***************************************************************************)

\* The requests that qualify: status 200 and a body that parses.
Qualifying == { j \in 1..Len(fq.requests) : fq.requests[j].answer.kind = "json" }

\* C24: the schema URLs are requested in the fixed order /openapi.json,
\* /docs/openapi.json, /swagger.json, /api-docs, each at most once; the loop
\* stops at the first URL that answers 200 with a body that parses and the
\* call works on that document; when no URL qualifies all four were asked
\* and the call returns [] (it never raises).
C24_FixedOrderFirstHit ==
    fq.pc # "off" =>
        /\ Len(fq.requests) <= 4
        /\ \A j \in 1..Len(fq.requests) :
              fq.requests[j].url =
                  << "/openapi.json", "/docs/openapi.json", "/swagger.json", "/api-docs" >>[j]
        /\ \A j \in Qualifying : j = Len(fq.requests)
        /\ fq.pc = "returned" =>
              IF Qualifying = {}
              THEN Len(fq.requests) = 4 /\ fq.returned = <<>>
              ELSE /\ fq.openapi_doc = fq.requests[Len(fq.requests)].answer.doc
                   /\ fq.openapi_doc.type = "schema" =>
                         Len(fq.returned) = Cardinality(fq.openapi_doc.schema)

\* C24 witness: a call that was refused twice, found a schema with two
\* operations at the third URL and returned them.
C24_Witness ==
    /\ fq.pc = "returned"
    /\ Len(fq.requests) = 3
    /\ fq.requests[1].answer.kind = "exception"
    /\ fq.requests[2].answer.kind = "unparseable"
    /\ Len(fq.returned) = 2

(***************************************************************************)
(* Claims about the life of a row across runs (Spec)                       *)
(***************************************************************************)

\* The columns of a row that are written at insertion only.
InsertOnly(row) ==
    <<row.remote_server_id, row.path, row.method, row.endpoint_hash, row.discovered_at>>

\* C25: when a reconciliation commits, every row of its server whose hash
\* the run reports again is active afterwards under the id it had (also
\* when an earlier run had deactivated it) and is the only row with that
\* hash; no step changes remote_server_id, path, method, endpoint_hash or
\* discovered_at of an existing row, and the id of a row is never given to
\* another row.
C25_ReactivatedInPlace ==
    [][ /\ \A id \in DOMAIN de \cap DOMAIN de' : InsertOnly(de'[id]) = InsertOnly(de[id])
        /\ \A id \in DOMAIN de' \ DOMAIN de : id >= nextId /\ id < nextId'
        /\ (StoreEnds /\ ~run'.failed) =>
              \A id \in DOMAIN de :
                  (/\ de[id].remote_server_id = run.server
                   /\ \E j \in 1..Len(run.cands) : run.cands[j].hash = de[id].endpoint_hash) =>
                      /\ id \in DOMAIN de'
                      /\ de'[id].is_active
                      /\ \A x \in DOMAIN de' :
                            de'[x].endpoint_hash = de[id].endpoint_hash => x = id
      ]_vars

\* C25 witness: a run has committed the reactivation of a row that an
\* earlier run had deactivated.
C25_Witness ==
    /\ run.pc = "done" /\ ~run.failed
    /\ \E id \in DOMAIN run.snap :
          /\ ~run.snap[id].is_active
          /\ \E j \in 1..Len(run.cands) : run.cands[j].hash = run.snap[id].endpoint_hash
          /\ id \in DOMAIN de /\ de[id].is_active

\* C26: no step of store_discovered_endpoints for a server inserts, changes
\* or removes a row of another server, and none changes the health table.
C26_OtherServersUntouched ==
    [][ (run.pc \in {"discovered", "commit"} /\ run' # run) =>
            /\ \A id \in DOMAIN de :
                  de[id].remote_server_id # run.server =>
                      id \in DOMAIN de' /\ de'[id] = de[id]
            /\ \A id \in DOMAIN de' \ DOMAIN de : de'[id].remote_server_id = run.server
            /\ health' = health
      ]_vars

\* C26 witness: a run has committed an insert and a deactivation for its
\* server while the other server owns an active row and health rows exist.
C26_Witness ==
    /\ run.pc = "done" /\ ~run.failed
    /\ Len(run.added) >= 1
    /\ \E id \in DOMAIN de : de[id].remote_server_id # run.server /\ de[id].is_active
    /\ health # {}

(***************************************************************************)
(* Claims about checked_at (SpecClock)                                     *)
(***************************************************************************)

\* C27 (as stated): for each endpoint the checked_at values of its rows are
\* non-decreasing in the order the probes were persisted, whichever writer
\* wrote them, and the row get_server_endpoints takes as the latest is the
\* row of the most recent probe of the endpoint.
C27_CheckedAtMonotone ==
    ck.pc = "on" =>
        /\ \A i, j \in 1..Len(ck.rows) :
              (i < j /\ ck.rows[i].eid = ck.rows[j].eid) =>
                  ck.rows[i].checked_at <= ck.rows[j].checked_at
        /\ ck.latest # 0 =>
              \A j \in 1..Len(ck.rows) :
                  (ck.rows[j].eid = ck.endpoint /\ j > ck.latest) =>
                      ck.rows[j].checked_at = ck.rows[ck.latest].checked_at

(***************************************************************************)
(* Claims about the session pool (SpecPool)                                *)
(***************************************************************************)

\* C28 (as stated): a session obtained through get_db_session is returned to
\* the pool exactly once per use, the queue never holds a session twice, no
\* session is in the hands of two users at once, and a caller whose body
\* raised receives the exception of the body.
C28_PoolIntegrity ==
    pl.pc = "on" =>
        /\ \A u \in PoolUsers : pl.users[u].puts <= 1
        /\ \A i, j \in 1..Len(pl.queue) : i # j => pl.queue[i] # pl.queue[j]
        /\ \A u, v \in PoolUsers :
              (u # v /\ pl.users[u].pc = "body" /\ pl.users[v].pc = "body") =>
                  pl.users[u].session # pl.users[v].session
        /\ \A u \in PoolUsers : pl.users[u].received # "RuntimeError"

(***************************************************************************)
(* Claims about EnhancedHealthChecker (SpecChecker)                        *)
(***************************************************************************)

\* C29 (as stated): whenever initialize(base_url = B, basic_auth = A) has
\* returned with the checker initialized, whatever calls of initialize and
\* close came before, the checker's base URL is B (the default for no B) and
\* its credentials are A.
C29_LastConfigurationUsed ==
    (hc.pc = "on" /\ hc.call.pc = "returned" /\ hc._is_initialized) =>
        /\ hc.base_url = IF hc.call.base_url # None THEN hc.call.base_url
                         ELSE "http://localhost:8000"
        /\ hc.basic_auth = hc.call.basic_auth

\* C30 (as stated): a call of initialize without basic auth that has
\* returned made at most max_retries (3) token requests, left the checker
\* initialized exactly when one of its requests was answered 200, and left
\* the HTTP session None when the checker is not initialized.
C30_TokenLoop ==
    (hc.pc = "on" /\ hc.call.pc = "returned" /\ hc.call.basic_auth = None) =>
        /\ hc.call.requests <= 3
        /\ hc._is_initialized <=> hc.call.answered_200
        /\ ~hc._is_initialized => hc.session = None

====
